---- MODULE Spec2Model ----
(***************************************************************************)
(* ExamEye Shield backend (src/backend/server.py): the session / violation *)
(* pipeline.  Every request handler is a coroutine; the code between two   *)
(* awaits runs without interleaving, so each action below is one such      *)
(* segment together with the database operation it awaits.  The report     *)
(* functions of src/backend/export_service.py are pure; each is applied    *)
(* once to a list of violation documents.                                  *)
(***************************************************************************)
EXTENDS Integers, Sequences, FiniteSets, TLC

\* ------------------------------------------------------------------ bounds
MaxTasks    == 2      \* request handlers in flight at the same time
MaxOps      == 3      \* requests ever issued
MaxFindings == 2      \* findings the detector returns for one frame
MaxFaults   == 1      \* store operations or uploads that raise
MaxHandles  == 1      \* admin websocket connections ever opened
MaxSockets  == 2      \* websocket connections of either kind ever opened
MaxCalls    == 2      \* requests issued while both kinds of socket come and go
MaxViolations == 4    \* violation documents handed to one export call

\* ------------------------------------------------------------ input domains
MissingId == 0        \* a request.session_id that no stored session has

Tasks   == 1..MaxTasks
Handles == 1..MaxHandles
Sockets == 1..MaxSockets

\* the kinds of finding, in the order the detector lists them for a frame
DetectorKinds == <<"looking_away", "multiple_faces", "no_person">>

StudentData ==
    { [student_id |-> "STU-ABC123", student_name |-> "Jane Doe"],
      [student_id |-> "STU-XYZ789", student_name |-> "John Roe"] }

FindingSeqs == { SubSeq(DetectorKinds, 1, n) : n \in 0..MaxFindings }

\* what proctoring_service.process_frame returns: {'error': ...} or a result
\* with 'violations' and an optional 'snapshot_base64' (a snapshot is taken
\* of a frame that has findings)
DetectResults ==
    { [error |-> TRUE, violations |-> <<>>, snapshot_base64 |-> FALSE] }
    \cup { r \in { [error |-> FALSE, violations |-> f, snapshot_base64 |-> b] :
                      f \in FindingSeqs, b \in BOOLEAN } :
             r.snapshot_base64 => r.violations # <<>> }

\* what supabase_service.upload_violation_snapshot does: returns a url,
\* returns None, or raises
UploadOutcomes == {"url", "None", "raise"}

\* find_one() result when no document matches
None ==
    [id |-> MissingId, student_id |-> "", student_name |-> "",
     status |-> "None", end_time |-> 0, total_frames |-> 0,
     violation_count |-> 0]

VARIABLES
    exam_sessions,   \* db.exam_sessions: sequence of documents, id = index
    violations,      \* db.violations: sequence of documents, insertion order
    published,       \* the events handed to ws_manager, in call order
    admins,          \* ws_manager: the global subscriber set
    closed,          \* handles that were dropped or disconnected
    students,        \* ws_manager: the session-scoped subscriptions, as
                     \* pairs <<session id, websocket>>
    endpoints,       \* the running websocket_student coroutines, as pairs
                     \* <<session_id of the path, websocket>>
    db_students,     \* db.students: sequence of documents, insertion order
    dropped,         \* the handles dropped because a send to them failed
    inbox,           \* per websocket: the messages delivered to it, in order
    tasks,           \* per handler slot: the locals and position of its call
    response,        \* the response of the call that answered last
    now,             \* datetime.utcnow()
    nops,            \* number of requests issued so far (names a call)
    faults,          \* number of operations that raised so far
    succeeded,       \* per session: process_frame calls that returned 200
    args,            \* export_service: the arguments of the call
    out              \* export_service: what the call returned

vars == <<exam_sessions, violations, published, admins, closed, students,
          endpoints, db_students, dropped, inbox, tasks, response, now, nops,
          faults, succeeded, args, out>>

\* the session document as a handler holds it after find_one: whether there
\* is one, the student it names and its status at the time of the read
read_fields(doc) ==
    [found |-> doc.id # MissingId, student_id |-> doc.student_id,
     student_name |-> doc.student_name, status |-> doc.status]

\* no StudentCreate body: the handler is not register_student
NoStudentData == [name |-> "", email |-> ""]

Idle ==
    [op |-> "idle", pc |-> "idle", session_id |-> MissingId,
     violations |-> <<>>, snapshot_base64 |-> FALSE, i |-> 0,
     session |-> read_fields(None), snapshot_url |-> "None", call |-> 0,
     student_data |-> NoStudentData, counts |-> <<>>]

NoResponse ==
    [op |-> "idle", session_id |-> MissingId, result |-> "none",
     detail |-> "", call |-> 0]

\* export_service: no call
NoCall == [fn |-> "none"]

\* --------------------------------------------------------- database helpers

\* variant of find_one whose filter is empty: the first document matches
find_one_first(docs, id) ==
    IF docs # <<>> THEN docs[1] ELSE None

\* db.exam_sessions.find_one({"id": id})
find_one(docs, id) ==
    IF id \in DOMAIN docs THEN docs[id] ELSE None

\* update_one({"id": id}, {"$inc": {"total_frames": 1}}): atomic; matches no
\* document, and changes nothing, when the id is unknown
inc_total_frames(docs, id) ==
    IF id \in DOMAIN docs
    THEN [docs EXCEPT ![id].total_frames = @ + 1]
    ELSE docs

\* variant of inc_violation_count whose filter is empty: every session matches
inc_violation_count_all(docs, id) ==
    [k \in DOMAIN docs |-> [docs[k] EXCEPT !.violation_count = @ + 1]]

\* variant of inc_violation_count that counts a violation twice
inc_violation_count_twice(docs, id) ==
    IF id \in DOMAIN docs
    THEN [docs EXCEPT ![id].violation_count = @ + 2]
    ELSE docs

\* update_one({"id": id}, {"$inc": {"violation_count": 1}})
inc_violation_count(docs, id) ==
    IF id \in DOMAIN docs
    THEN [docs EXCEPT ![id].violation_count = @ + 1]
    ELSE docs

\* variant of set_completed that flips the status instead of setting it
set_completed_toggle(docs, id, t) ==
    IF id \in DOMAIN docs
    THEN [docs EXCEPT ![id].end_time = t,
                      ![id].status = IF @ = "completed" THEN "active"
                                     ELSE "completed"]
    ELSE docs

\* variant of set_completed whose write is not applied
set_completed_skipped(docs, id, t) ==
    docs

\* update_one({"id": id}, {"$set": {"end_time": utcnow(), "status": "completed"}})
set_completed(docs, id, t) ==
    IF id \in DOMAIN docs
    THEN [docs EXCEPT ![id].end_time = t, ![id].status = "completed"]
    ELSE docs

\* ExamSession(student_id=..., student_name=...): fresh id, status active,
\* both counters zero, no end time
ExamSession(id, session_data) ==
    [id |-> id, student_id |-> session_data.student_id,
     student_name |-> session_data.student_name, status |-> "active",
     end_time |-> 0, total_frames |-> 0, violation_count |-> 0]

\* Violation(session_id=..., student_id=session['student_id'], ...)
Violation(tk, kind, url) ==
    [session_id |-> tk.session_id, student_id |-> tk.session.student_id,
     student_name |-> tk.session.student_name, violation_type |-> kind,
     snapshot_url |-> url, call |-> tk.call]

\* ------------------------------------------------------ notification hub

Event(channel, sid, student, detail, url, call) ==
    [channel |-> channel, session_id |-> sid,
     student_id |-> student.student_id, student_name |-> student.student_name,
     detail |-> detail, snapshot_url |-> url, call |-> call]

\* variant of recipients that sends to every open websocket, of either scope
recipients_everyone(failed) ==
    (admins \cup { p[2] : p \in students }) \ failed

\* variant of recipients that still sends to handles that were removed
recipients_stale(failed) ==
    (admins \cup closed) \ failed

\* the handles an event addressed to the global set reaches: the handles of
\* the global set whose send succeeds
recipients(failed) ==
    admins \ failed

\* variant of enqueue that puts the event ahead of the ones already queued
enqueue_front(queue, ev) ==
    <<ev>> \o queue

\* a handle's delivery queue takes the event at its end
enqueue(queue, ev) ==
    Append(queue, ev)

\* variant of after_drop that keeps the handles whose send failed
after_drop_keeps(failed) ==
    admins

\* the global set after a publish: the handles whose send failed are dropped
after_drop(failed) ==
    admins \ failed

\* ws_manager.send_session_update / broadcast_violation_alert: the event goes
\* to the queue of every handle of the global set, except the handles whose
\* send fails, which are dropped; nothing is raised to the publisher
Publish(ev, failed) ==
    /\ published' = Append(published, ev)
    /\ inbox' = [h \in Sockets |->
                   IF h \in recipients(failed) THEN enqueue(inbox[h], ev)
                   ELSE inbox[h]]
    /\ admins' = after_drop(failed)
    /\ closed' = closed \cup failed
    /\ dropped' = dropped \cup failed

\* ws_manager.connect_admin(websocket): a websocket object connects once
connect_admin(h) ==
    /\ h \notin admins
    /\ h \notin closed
    /\ h \notin { p[2] : p \in endpoints }
    /\ admins' = admins \cup {h}
    /\ UNCHANGED <<exam_sessions, violations, published, closed, students,
                   endpoints, db_students, dropped, inbox, tasks, response,
                   now, nops, faults, succeeded, args, out>>

\* ws_manager.disconnect_admin(websocket) on WebSocketDisconnect
disconnect_admin(h) ==
    /\ h \in admins
    /\ admins' = admins \ {h}
    /\ closed' = closed \cup {h}
    /\ UNCHANGED <<exam_sessions, violations, published, students, endpoints,
                   db_students, dropped, inbox, tasks, response, now, nops,
                   faults, succeeded, args, out>>

\* ws_manager.connect_student(session_id, websocket): the websocket joins the
\* set of the session id of its path, whether or not such a session exists
connect_student(session_id, h) ==
    /\ h \notin admins
    /\ h \notin closed
    /\ h \notin { p[2] : p \in endpoints }
    /\ students' = students \cup {<<session_id, h>>}
    /\ endpoints' = endpoints \cup {<<session_id, h>>}
    /\ UNCHANGED <<exam_sessions, violations, db_students, published, admins,
                   closed,
                   dropped, inbox, tasks, response, now, nops, faults,
                   succeeded, args, out>>

\* ws_manager.disconnect_student(session_id): the call names the session id
\* and no websocket, so what it removes is the same whichever websocket h of
\* that session id went away: the subscriptions under the session id (one
\* websocket or several, however ws_manager keeps them)
session_set_removed(session_id) ==
    { p \in students : p[1] # session_id }

\* line 406: on WebSocketDisconnect of websocket h, whose path names
\* session_id, the coroutine calls ws_manager.disconnect_student(session_id)
\* and ends
disconnect_student(session_id, h) ==
    /\ <<session_id, h>> \in endpoints
    /\ endpoints' = endpoints \ {<<session_id, h>>}
    /\ students' = session_set_removed(session_id)
    /\ closed' = closed \cup {h}
    /\ UNCHANGED <<exam_sessions, violations, db_students, published, admins,
                   dropped, inbox, tasks, response, now, nops, faults,
                   succeeded, args, out>>

\* ------------------------------------------------------------ task helpers

\* a request arrives and takes the first free handler slot
Begin(t) ==
    /\ tasks[t].pc = "idle"
    /\ \A u \in Tasks : u < t => tasks[u].pc # "idle"
    /\ nops < MaxOps
    /\ nops' = nops + 1

\* the handler goes on to its next await with locals tk
Continue(t, tk) ==
    /\ tasks' = [tasks EXCEPT ![t] = tk]
    /\ UNCHANGED response

\* the handler answers: `return` (200), or a raised HTTPException with its
\* detail (for a 500, the text of the exception that was caught); its locals
\* are gone and its slot is free
Answer(t, tk, code, detail) ==
    /\ tasks' = [tasks EXCEPT ![t] = Idle]
    /\ response' = [op |-> tk.op, session_id |-> tk.session_id,
                    result |-> code, detail |-> detail, call |-> tk.call]

\* the awaited store operation (or the upload) raises when f is true
Fault(f) ==
    /\ f => faults < MaxFaults
    /\ faults' = IF f THEN faults + 1 ELSE faults

\* ghost bookkeeping: one more process_frame call on sid returned 200
CountSuccess(sid) ==
    IF sid \in DOMAIN succeeded
    THEN [succeeded EXCEPT ![sid] = @ + 1]
    ELSE succeeded

\* ------------------------------------------------------- start_exam_session

\* lines 170-177: build the ExamSession and insert it
start_exam_session(t, session_data, fail) ==
    /\ Begin(t)
    /\ Fault(fail)
    /\ LET id      == Len(exam_sessions) + 1
           session == ExamSession(id, session_data)
           tk      == [Idle EXCEPT !.op = "start", !.pc = "notify",
                                   !.session_id = id,
                                   !.session = read_fields(session),
                                   !.call = nops + 1]
       IN  IF fail
           THEN /\ Answer(t, tk, "InternalError", "insert_one failed")
                /\ UNCHANGED <<exam_sessions, succeeded>>
           ELSE /\ exam_sessions' = Append(exam_sessions, session)
                /\ succeeded' = Append(succeeded, 0)
                /\ Continue(t, tk)
    /\ UNCHANGED <<violations, published, admins, closed, students, endpoints,
                   db_students, dropped, inbox, now, args, out>>

\* lines 181-189: send_session_update(status 'started'), return the session
start_notify(t, failed) ==
    /\ tasks[t].op = "start"
    /\ tasks[t].pc = "notify"
    /\ Publish(Event("session_update", tasks[t].session_id, tasks[t].session,
                     "started", "None", tasks[t].call), failed)
    /\ Answer(t, tasks[t], "success", "")
    /\ UNCHANGED <<exam_sessions, violations, students, endpoints,
                   db_students, now, nops, faults, succeeded, args, out>>

\* --------------------------------------------------------- end_exam_session

\* variant of not_found that lets every lookup result through
not_found_never(session) ==
    FALSE

\* line 209: `if not session`
not_found(session) ==
    session = None

\* lines 208-210: find the session, 404 when there is none
end_exam_session(t, sid, fail) ==
    /\ Begin(t)
    /\ Fault(fail)
    /\ LET session == find_one(exam_sessions, sid)
           tk      == [Idle EXCEPT !.op = "end", !.pc = "update",
                                   !.session_id = sid,
                                   !.session = read_fields(session),
                                   !.call = nops + 1]
       IN  IF fail
           THEN Answer(t, tk, "InternalError", "find_one failed")
           ELSE IF not_found(session)
           THEN Answer(t, tk, "NotFoundError", "Session not found")
           ELSE Continue(t, tk)
    /\ UNCHANGED <<exam_sessions, violations, published, admins, closed,
                   students, endpoints, db_students, dropped, inbox, now,
                   succeeded, args, out>>

\* lines 212-218: $set end_time and status, whatever the status was
end_update(t, fail) ==
    /\ tasks[t].op = "end"
    /\ tasks[t].pc = "update"
    /\ Fault(fail)
    /\ now' = now + 1
    /\ IF fail
       THEN /\ Answer(t, tasks[t], "InternalError", "update_one failed")
            /\ UNCHANGED exam_sessions
       ELSE /\ exam_sessions' =
                   set_completed(exam_sessions, tasks[t].session_id, now)
            /\ Continue(t, [tasks[t] EXCEPT !.pc = "notify"])
    /\ UNCHANGED <<violations, published, admins, closed, students, endpoints,
                   db_students, dropped, inbox, nops, succeeded, args, out>>

\* lines 221-227: send_session_update(status 'completed'), return the message
end_notify(t, failed) ==
    /\ tasks[t].op = "end"
    /\ tasks[t].pc = "notify"
    /\ Publish(Event("session_update", tasks[t].session_id, read_fields(None),
                     "completed", "None", tasks[t].call), failed)
    /\ Answer(t, tasks[t], "success", "")
    /\ UNCHANGED <<exam_sessions, violations, students, endpoints,
                   db_students, now, nops, faults, succeeded, args, out>>

\* ------------------------------------------------------------ process_frame

\* variant of frames_after_detect with the $inc ahead of the 'error' check
frames_before_error_check(result, fail, docs, id) ==
    IF fail THEN docs ELSE inc_total_frames(docs, id)

\* lines 257-264: the frame counter after the detector has answered: the
\* error check comes first, then the $inc (which may fail in the store)
frames_after_detect(result, fail, docs, id) ==
    IF result.error \/ fail THEN docs ELSE inc_total_frames(docs, id)

\* lines 251-267 (and 315 when there are no findings)
process_frame(t, sid, result, fail) ==
    /\ Begin(t)
    /\ Fault(fail /\ ~result.error)
    /\ exam_sessions' = frames_after_detect(result, fail, exam_sessions, sid)
    /\ LET tk == [Idle EXCEPT !.op = "process_frame", !.pc = "find",
                              !.session_id = sid,
                              !.violations = result.violations,
                              !.snapshot_base64 = result.snapshot_base64,
                              !.call = nops + 1]
       IN  IF result.error
           THEN /\ Answer(t, tk, "DetectionError", "detector error")
                /\ UNCHANGED succeeded
           ELSE IF fail
           THEN /\ Answer(t, tk, "InternalError", "update_one failed")
                /\ UNCHANGED succeeded
           ELSE IF result.violations = <<>>
           THEN /\ Answer(t, tk, "success", "")
                /\ succeeded' = CountSuccess(sid)
           ELSE /\ Continue(t, tk)
                /\ UNCHANGED succeeded
    /\ UNCHANGED <<violations, published, admins, closed, students, endpoints,
                   db_students, dropped, inbox, now, args, out>>

\* line 268: session = find_one(...), None for an unknown id
pf_find_session(t, fail) ==
    /\ tasks[t].op = "process_frame"
    /\ tasks[t].pc = "find"
    /\ Fault(fail)
    /\ IF fail
       THEN Answer(t, tasks[t], "InternalError", "find_one failed")
       ELSE Continue(t, [tasks[t] EXCEPT
                !.session = read_fields(
                               find_one(exam_sessions, tasks[t].session_id)),
                !.i = 1, !.pc = "insert"])
    /\ UNCHANGED <<exam_sessions, violations, published, admins, closed,
                   students, endpoints, db_students, dropped, inbox, now,
                   nops, succeeded, args, out>>

\* variant of violation_detail that walks the findings from the last one
violation_detail_reversed(tk) ==
    tk.violations[Len(tk.violations) + 1 - tk.i]

\* line 270: the loop variable of `for violation_detail in result['violations']`
violation_detail(tk) ==
    tk.violations[tk.i]

\* lines 271-293: upload the snapshot (when there is one), build the
\* Violation, insert it.  session['student_id'] on None, a raising upload and
\* a failing insert all end in the handler's `except Exception` (500)
pf_insert_violation(t, upload, fail) ==
    /\ tasks[t].op = "process_frame"
    /\ tasks[t].pc = "insert"
    /\ LET tk     == tasks[t]
           raises == tk.snapshot_base64 /\ upload = "raise"
           url    == IF tk.snapshot_base64 /\ upload = "url" THEN "url"
                     ELSE "None"
       IN  IF ~tk.session.found
           THEN /\ Answer(t, tk, "InternalError", "NoneType is not subscriptable")
                /\ UNCHANGED <<violations, faults>>
           ELSE /\ Fault(raises \/ fail)
                /\ IF raises \/ fail
                   THEN /\ Answer(t, tk, "InternalError",
                                  IF raises THEN "upload failed"
                                  ELSE "insert_one failed")
                        /\ UNCHANGED violations
                   ELSE /\ violations' = Append(violations,
                               Violation(tk, violation_detail(tk), url))
                        /\ Continue(t, [tk EXCEPT !.snapshot_url = url,
                                                  !.pc = "inc_violation"])
    /\ UNCHANGED <<exam_sessions, published, admins, closed, students,
                   endpoints, db_students, dropped, inbox, now, nops,
                   succeeded, args, out>>

\* lines 296-299: $inc violation_count
pf_inc_violation(t, fail) ==
    /\ tasks[t].op = "process_frame"
    /\ tasks[t].pc = "inc_violation"
    /\ Fault(fail)
    /\ IF fail
       THEN /\ Answer(t, tasks[t], "InternalError", "update_one failed")
            /\ UNCHANGED exam_sessions
       ELSE /\ exam_sessions' =
                   inc_violation_count(exam_sessions, tasks[t].session_id)
            /\ Continue(t, [tasks[t] EXCEPT !.pc = "broadcast"])
    /\ UNCHANGED <<violations, published, admins, closed, students, endpoints,
                   db_students, dropped, inbox, now, nops, succeeded, args,
                   out>>

\* lines 302-315: broadcast the alert, then the next finding or the response
pf_broadcast(t, failed) ==
    /\ tasks[t].op = "process_frame"
    /\ tasks[t].pc = "broadcast"
    /\ LET tk == tasks[t]
       IN  /\ Publish(Event("violation_alert", tk.session_id, tk.session,
                            violation_detail(tk), tk.snapshot_url, tk.call),
                      failed)
           /\ IF tk.i < Len(tk.violations)
              THEN /\ Continue(t, [tk EXCEPT !.i = tk.i + 1, !.pc = "insert"])
                   /\ UNCHANGED succeeded
              ELSE /\ Answer(t, tk, "success", "")
                   /\ succeeded' = CountSuccess(tk.session_id)
    /\ UNCHANGED <<exam_sessions, violations, students, endpoints,
                   db_students, now, nops, faults, args, out>>

\* ------------------------------------------------------------ specification

Init ==
    /\ exam_sessions = <<>>
    /\ violations = <<>>
    /\ published = <<>>
    /\ admins = {}
    /\ closed = {}
    /\ students = {}
    /\ endpoints = {}
    /\ db_students = <<>>
    /\ dropped = {}
    /\ inbox = [h \in Sockets |-> <<>>]
    /\ tasks = [t \in Tasks |-> Idle]
    /\ response = NoResponse
    /\ now = 1
    /\ nops = 0
    /\ faults = 0
    /\ succeeded = <<>>
    /\ args = NoCall
    /\ out = NoCall

KnownOrMissing == DOMAIN exam_sessions \cup {MissingId}

\* the request handlers
Handlers ==
    \/ \E t \in Tasks, d \in StudentData, fail \in BOOLEAN :
          start_exam_session(t, d, fail)
    \/ \E t \in Tasks, failed \in SUBSET admins : start_notify(t, failed)
    \/ \E t \in Tasks, sid \in KnownOrMissing, fail \in BOOLEAN :
          end_exam_session(t, sid, fail)
    \/ \E t \in Tasks, fail \in BOOLEAN : end_update(t, fail)
    \/ \E t \in Tasks, failed \in SUBSET admins : end_notify(t, failed)
    \/ \E t \in Tasks, sid \in KnownOrMissing, result \in DetectResults,
          fail \in BOOLEAN : process_frame(t, sid, result, fail)
    \/ \E t \in Tasks, fail \in BOOLEAN : pf_find_session(t, fail)
    \/ \E t \in Tasks, upload \in UploadOutcomes, fail \in BOOLEAN :
          pf_insert_violation(t, upload, fail)
    \/ \E t \in Tasks, fail \in BOOLEAN : pf_inc_violation(t, fail)
    \/ \E t \in Tasks, failed \in SUBSET admins : pf_broadcast(t, failed)

Next == Handlers

\* the handlers alone: no dashboard is connected
Spec == Init /\ [][Next]_vars

\* the handlers with admin dashboards connecting and disconnecting
NextHub ==
    \/ Handlers
    \/ \E h \in Handles : connect_admin(h)
    \/ \E h \in Handles : disconnect_admin(h)

SpecHub == Init /\ [][NextHub]_vars

\* ------------------------------------------- the hub with both kinds of socket

\* detector results with findings and no snapshot
FanoutResults ==
    { r \in DetectResults :
         ~r.error /\ r.violations # <<>> /\ ~r.snapshot_base64 }

\* the server comes up on a database that holds one active session of each
\* student, stored by two earlier StartSession calls
InitFanout ==
    /\ \E d1 \in StudentData, d2 \in StudentData :
          /\ d1 # d2
          /\ exam_sessions = <<ExamSession(1, d1), ExamSession(2, d2)>>
    /\ violations = <<>>
    /\ published = <<>>
    /\ admins = {}
    /\ closed = {}
    /\ students = {}
    /\ endpoints = {}
    /\ db_students = <<>>
    /\ dropped = {}
    /\ inbox = [h \in Sockets |-> <<>>]
    /\ tasks = [t \in Tasks |-> Idle]
    /\ response = NoResponse
    /\ now = 1
    /\ nops = 0
    /\ faults = 0
    /\ succeeded = <<0, 0>>
    /\ args = NoCall
    /\ out = NoCall

\* the handlers with no failing store operation, and websockets of both
\* kinds connecting and disconnecting at any moment
NextFanout ==
    \/ \E t \in Tasks, d \in StudentData :
          nops < MaxCalls /\ start_exam_session(t, d, FALSE)
    \/ \E t \in Tasks, failed \in SUBSET admins : start_notify(t, failed)
    \/ \E t \in Tasks, sid \in DOMAIN exam_sessions :
          nops < MaxCalls /\ end_exam_session(t, sid, FALSE)
    \/ \E t \in Tasks : end_update(t, FALSE)
    \/ \E t \in Tasks, failed \in SUBSET admins : end_notify(t, failed)
    \/ \E t \in Tasks, sid \in DOMAIN exam_sessions, result \in FanoutResults :
          nops < MaxCalls /\ process_frame(t, sid, result, FALSE)
    \/ \E t \in Tasks : pf_find_session(t, FALSE)
    \/ \E t \in Tasks : pf_insert_violation(t, "None", FALSE)
    \/ \E t \in Tasks : pf_inc_violation(t, FALSE)
    \/ \E t \in Tasks, failed \in SUBSET admins : pf_broadcast(t, failed)
    \/ \E h \in Sockets : connect_admin(h)
    \/ \E h \in Sockets : disconnect_admin(h)
    \/ \E h \in Sockets, sid \in DOMAIN exam_sessions : connect_student(sid, h)
    \/ \E h \in Sockets, sid \in DOMAIN exam_sessions :
          disconnect_student(sid, h)

SpecFanout == InitFanout /\ [][NextFanout]_vars

\* ------------------------------------------------------------ export_service

\* the variables of the server, which no export call touches
server_vars ==
    <<exam_sessions, violations, published, admins, closed, students,
      endpoints, db_students, dropped, inbox, tasks, response, now, nops,
      faults, succeeded>>

Front(s) == SubSeq(s, 1, Len(s) - 1)
Last(s) == s[Len(s)]

\* v.get(key, default) on a document, a mapping with some of the keys
get(v, key, default) ==
    IF key \in DOMAIN v THEN v[key] ELSE default

\* v.get(key): None when the key is absent
get_or_None(v, key) ==
    get(v, key, "None")

\* Python truth of a field value: None and the empty string are false
truthy(x) ==
    x \notin {"None", ""}

\* violation_types[v_type] = violation_types.get(v_type, 0) + 1 on a dict,
\* kept as the sequence of its items in insertion order
dict_inc(d, key) ==
    IF \E k \in DOMAIN d : d[k].key = key
    THEN [k \in DOMAIN d |->
            IF d[k].key = key THEN [d[k] EXCEPT !.count = @ + 1] ELSE d[k]]
    ELSE Append(d, [key |-> key, count |-> 1])

\* the dict a counting loop leaves for the keys it met, in order
RECURSIVE tally(_)
tally(keys) ==
    IF keys = <<>> THEN <<>> ELSE dict_inc(tally(Front(keys)), Last(keys))

\* one insertion of a stable sort by count, largest first: the item goes
\* behind every item whose count is not smaller
RECURSIVE insert_desc(_, _)
insert_desc(items, x) ==
    IF items = <<>> THEN <<x>>
    ELSE IF Head(items).count >= x.count
    THEN <<Head(items)>> \o insert_desc(Tail(items), x)
    ELSE <<x>> \o items

\* the same insertion, but ahead of the items of equal count
RECURSIVE insert_desc_ahead(_, _)
insert_desc_ahead(items, x) ==
    IF items = <<>> THEN <<x>>
    ELSE IF Head(items).count > x.count
    THEN <<Head(items)>> \o insert_desc_ahead(Tail(items), x)
    ELSE <<x>> \o items

RECURSIVE stable_desc(_)
stable_desc(items) ==
    IF items = <<>> THEN <<>>
    ELSE insert_desc(stable_desc(Front(items)), Last(items))

RECURSIVE ties_reversed_desc(_)
ties_reversed_desc(items) ==
    IF items = <<>> THEN <<>>
    ELSE insert_desc_ahead(ties_reversed_desc(Front(items)), Last(items))

\* variant of sorted_by_count that sorts ascending and reverses the result
sorted_by_count_then_reversed(items) ==
    ties_reversed_desc(items)

\* sorted(d.items(), key=lambda x: x[1], reverse=True): stable, and reverse
\* keeps the items of equal count in their original order
sorted_by_count(items) ==
    stable_desc(items)

\* the kinds in the order of sorted() on their names: by code point, capital
\* letters first
SortedKinds == <<"Looking_Away">> \o DetectorKinds \o <<"unknown">>

\* sorted(violation_types.items()): by kind
sorted_by_kind(items) ==
    LET kinds == SelectSeq(SortedKinds,
                    LAMBDA n : \E k \in DOMAIN items : items[k].key = n)
    IN  [j \in DOMAIN kinds |->
            items[CHOOSE k \in DOMAIN items : items[k].key = kinds[j]]]

\* the v_type of each violation of the list, 'unknown' when it has none
kinds_of(vs) ==
    [k \in DOMAIN vs |-> get(vs[k], "violation_type", "unknown")]

\* f"{student_id}|{student_name}" on strings kept as sequences of characters
student_key(v) ==
    get(v, "student_id", <<>>) \o <<"|">> \o get(v, "student_name", <<>>)

\* key.split('|'): the pieces between the bars
RECURSIVE split(_)
split(s) ==
    IF \A k \in DOMAIN s : s[k] # "|" THEN <<s>>
    ELSE LET k == CHOOSE i \in DOMAIN s :
                      s[i] = "|" /\ \A j \in 1..(i - 1) : s[j] # "|"
         IN  <<SubSeq(s, 1, k - 1)>> \o split(SubSeq(s, k + 1, Len(s)))

\* export_summary_csv(sessions, violations, students), lines 68-99: the
\* breakdown by kind and the student-wise rows; unpacking a key of more than
\* two pieces raises, and the except clause returns ""
summary_csv(vs) ==
    LET violation_types    == tally(kinds_of(vs))
        student_violations == tally([k \in DOMAIN vs |-> student_key(vs[k])])
        ranked             == sorted_by_count(student_violations)
    IN  IF \E k \in DOMAIN ranked : Len(split(ranked[k].key)) # 2
        THEN [fn |-> "export_summary_csv", text |-> "",
              breakdown |-> <<>>, rows |-> <<>>]
        ELSE [fn |-> "export_summary_csv", text |-> "csv",
              breakdown |-> sorted_by_kind(violation_types),
              rows |-> [k \in DOMAIN ranked |->
                          [student_id   |-> split(ranked[k].key)[1],
                           student_name |-> split(ranked[k].key)[2],
                           count        |-> ranked[k].count]]]

\* export_student_violations_csv(student_id, student_name, violations), lines
\* 196-213: the breakdown by kind and the kind column of the detail lines
student_violations_csv(vs) ==
    [fn |-> "export_student_violations_csv", text |-> "csv",
     breakdown |-> sorted_by_kind(tally(kinds_of(vs))),
     details |-> [k \in DOMAIN vs |-> get(vs[k], "violation_type", "")]]

\* variant of percentage that truncates to whole percents
percentage_whole(count, total) ==
    ((100 * count) \div total) * 10

\* lines 290 and 295: (count / len(violations)) * 100 shown with "{:.1f}",
\* in tenths of a percent (no count / total within the bounds falls halfway
\* between two tenths)
percentage(count, total) ==
    (2000 * count + total) \div (2 * total)

\* lines 324-326: an inline snapshot that starts with 'data:' is used as it
\* is, a bare one ("AAAA" is the only one in the documents) gets the jpeg prefix
DataUrls == {"data:image/png;base64,BBBB", "data:image/jpeg;base64,AAAA"}

as_data_url(snapshot_base64) ==
    IF snapshot_base64 \in DataUrls THEN snapshot_base64
    ELSE "data:image/jpeg;base64,AAAA"

NoImage == [img |-> FALSE, src |-> ""]

\* variant of evidence_image that looks at the inline snapshot first
evidence_image_inline_first(v) ==
    IF truthy(get_or_None(v, "snapshot_base64"))
    THEN [img |-> TRUE, src |-> as_data_url(v.snapshot_base64)]
    ELSE IF truthy(get_or_None(v, "snapshot_url"))
    THEN [img |-> TRUE, src |-> v.snapshot_url]
    ELSE NoImage

\* lines 320-327: the <img> of a violation card
evidence_image(v) ==
    IF truthy(get_or_None(v, "snapshot_url"))
    THEN [img |-> TRUE, src |-> v.snapshot_url]
    ELSE IF truthy(get_or_None(v, "snapshot_base64"))
    THEN [img |-> TRUE, src |-> as_data_url(v.snapshot_base64)]
    ELSE NoImage

\* generate_student_html_report(student_id, student_name, violations), lines
\* 224-336: the three numbers of the header, the breakdown rows and the cards
student_html_report(vs) ==
    LET violation_types == tally(kinds_of(vs))
        ranked          == sorted_by_count(violation_types)
    IN  [fn |-> "generate_student_html_report", text |-> "html",
         total |-> Len(vs),
         types |-> Len(violation_types),
         photos |-> Cardinality({ k \in DOMAIN vs :
                        \/ truthy(get_or_None(vs[k], "snapshot_url"))
                        \/ truthy(get_or_None(vs[k], "snapshot_base64")) }),
         breakdown |-> [k \in DOMAIN ranked |->
                          [v_type     |-> ranked[k].key,
                           count      |-> ranked[k].count,
                           percentage |-> percentage(ranked[k].count,
                                                     Len(vs))]],
         cards |-> [k \in DOMAIN vs |->
                      [v_type |-> get(vs[k], "violation_type", "Unknown"),
                       image  |-> evidence_image(vs[k])]]]

\* ---- the documents the export calls are given

\* violation documents as the summary reads them: student and kind, either of
\* which a document may lack
SummaryDocs ==
    { [student_id |-> <<"1">>, student_name |-> <<"A">>,
       violation_type |-> "looking_away"],
      [student_id |-> <<"1">>, student_name |-> <<"A">>],
      [student_id |-> <<"2">>, student_name |-> <<"B">>,
       violation_type |-> "no_person"],
      [student_id |-> <<"2">>, student_name |-> <<"B">>,
       violation_type |-> "looking_away"],
      [student_id |-> <<"3">>, student_name |-> <<"C", "|", "D">>,
       violation_type |-> "looking_away"],
      [violation_type |-> "multiple_faces"] }

\* violation documents as the student CSV reads them: a kind, in either
\* spelling, or none
StudentCsvDocs ==
    { [violation_type |-> "looking_away"],
      [violation_type |-> "Looking_Away"],
      [violation_type |-> "multiple_faces"],
      [severity |-> "high"] }

\* violation documents as the student report reads them: kind, snapshot url
\* (None, empty or a url) and inline snapshot (absent, empty, bare base64 or a
\* data URL)
ReportDocs ==
    { [violation_type |-> "looking_away", snapshot_url |-> "None"],
      [violation_type |-> "multiple_faces", snapshot_url |-> "None"],
      [snapshot_url |-> "None"] }
    \cup { [violation_type |-> "looking_away", snapshot_url |-> p[1],
            snapshot_base64 |-> p[2]] :
             p \in { <<"https://store/s.jpg", "AAAA">>,
                      <<"https://store/s.jpg", "data:image/png;base64,BBBB">>,
                      <<"https://store/s.jpg", "">>,
                      <<"", "AAAA">>,
                      <<"None", "data:image/png;base64,BBBB">>,
                      <<"None", "">> } }

Lists(docs) == UNION { [1..n -> docs] : n \in 0..MaxViolations }

ExportCalls ==
    { [fn |-> "export_summary_csv", violations |-> vs] :
         vs \in Lists(SummaryDocs) }
    \cup { [fn |-> "export_student_violations_csv", violations |-> vs] :
             vs \in Lists(StudentCsvDocs) }
    \cup { [fn |-> "generate_student_html_report", violations |-> vs] :
             vs \in Lists(ReportDocs) }

\* ---- the export calls

export_summary_csv ==
    /\ args.fn = "export_summary_csv"
    /\ out = NoCall
    /\ out' = summary_csv(args.violations)
    /\ UNCHANGED <<server_vars, args>>

export_student_violations_csv ==
    /\ args.fn = "export_student_violations_csv"
    /\ out = NoCall
    /\ out' = student_violations_csv(args.violations)
    /\ UNCHANGED <<server_vars, args>>

generate_student_html_report ==
    /\ args.fn = "generate_student_html_report"
    /\ out = NoCall
    /\ out' = student_html_report(args.violations)
    /\ UNCHANGED <<server_vars, args>>

InitExport ==
    /\ exam_sessions = <<>>
    /\ violations = <<>>
    /\ published = <<>>
    /\ admins = {}
    /\ closed = {}
    /\ students = {}
    /\ endpoints = {}
    /\ db_students = <<>>
    /\ dropped = {}
    /\ inbox = [h \in Sockets |-> <<>>]
    /\ tasks = [t \in Tasks |-> Idle]
    /\ response = NoResponse
    /\ now = 1
    /\ nops = 0
    /\ faults = 0
    /\ succeeded = <<>>
    /\ args \in ExportCalls
    /\ out = NoCall

NextExport ==
    \/ export_summary_csv
    \/ export_student_violations_csv
    \/ generate_student_html_report

\* one export call on a list of violation documents
SpecExport == InitExport /\ [][NextExport]_vars

\* ---------------------------------------------------------- register_student

\* StudentCreate bodies: two of them carry the same email
RegisterData ==
    { [name |-> "Jane Doe", email |-> "jane@example.com"],
      [name |-> "J. Doe",   email |-> "jane@example.com"],
      [name |-> "John Roe", email |-> "john@example.com"] }

\* what generate_student_id() may return (random letters and digits)
StudentIds == {"STU-ABC123", "STU-XYZ789"}

\* line 70-71: db.students.find_one({"email": email}) found a document
email_registered(docs, email) ==
    \E k \in DOMAIN docs : docs[k].email = email

\* Student(student_id=..., name=..., email=...)
Student(student_id, student_data) ==
    [student_id |-> student_id, name |-> student_data.name,
     email |-> student_data.email]

\* lines 70-72: look the email up, 400 when a student has it
register_student(t, student_data, fail) ==
    /\ Begin(t)
    /\ Fault(fail)
    /\ LET tk == [Idle EXCEPT !.op = "register", !.pc = "insert",
                              !.student_data = student_data,
                              !.call = nops + 1]
       IN  IF fail
           THEN Answer(t, tk, "InternalError", "find_one failed")
           ELSE IF email_registered(db_students, student_data.email)
           THEN Answer(t, tk, "BadRequest", "Email already registered")
           ELSE Continue(t, tk)
    /\ UNCHANGED <<exam_sessions, violations, published, admins, closed,
                   students, endpoints, db_students, dropped, inbox, now,
                   succeeded, args, out>>

\* lines 75-84: build the Student with a generated id, insert it, return it
register_insert(t, student_id, fail) ==
    /\ tasks[t].op = "register"
    /\ tasks[t].pc = "insert"
    /\ Fault(fail)
    /\ IF fail
       THEN /\ Answer(t, tasks[t], "InternalError", "insert_one failed")
            /\ UNCHANGED db_students
       ELSE /\ db_students' =
                   Append(db_students,
                          Student(student_id, tasks[t].student_data))
            /\ Answer(t, tasks[t], "success", "")
    /\ UNCHANGED <<exam_sessions, violations, published, admins, closed,
                   students, endpoints, dropped, inbox, now, nops, succeeded,
                   args, out>>

NextRegister ==
    \/ \E t \in Tasks, d \in RegisterData, fail \in BOOLEAN :
          register_student(t, d, fail)
    \/ \E t \in Tasks, id \in StudentIds, fail \in BOOLEAN :
          register_insert(t, id, fail)

\* registrations alone, some of them at the same time
SpecRegister == Init /\ [][NextRegister]_vars

\* ------------------------------------------------------------ get_admin_stats

\* db.exam_sessions.count_documents({"status": status})
count_documents(docs, status) ==
    Cardinality({ k \in DOMAIN docs : docs[k].status = status })

\* SessionStats(total_sessions=..., active_sessions=..., ...)
SessionStats(counts, total_violations) ==
    [total_sessions |-> counts[1], active_sessions |-> counts[2],
     completed_sessions |-> counts[3], total_violations |-> total_violations]

\* line 357: count_documents({})
get_admin_stats(t, fail) ==
    /\ Begin(t)
    /\ Fault(fail)
    /\ LET tk == [Idle EXCEPT !.op = "stats", !.pc = "count_active",
                              !.counts = <<Len(exam_sessions)>>,
                              !.call = nops + 1]
       IN  IF fail
           THEN Answer(t, tk, "InternalError", "count_documents failed")
           ELSE Continue(t, tk)
    /\ UNCHANGED <<exam_sessions, violations, published, admins, closed,
                   students, endpoints, db_students, dropped, inbox, now,
                   succeeded, args, out>>

\* line 358: count_documents({"status": "active"})
stats_count_active(t, fail) ==
    /\ tasks[t].op = "stats"
    /\ tasks[t].pc = "count_active"
    /\ Fault(fail)
    /\ IF fail
       THEN Answer(t, tasks[t], "InternalError", "count_documents failed")
       ELSE Continue(t, [tasks[t] EXCEPT
                !.counts = Append(@, count_documents(exam_sessions, "active")),
                !.pc = "count_completed"])
    /\ UNCHANGED <<exam_sessions, violations, published, admins, closed,
                   students, endpoints, db_students, dropped, inbox, now,
                   nops, succeeded, args, out>>

\* line 359: count_documents({"status": "completed"})
stats_count_completed(t, fail) ==
    /\ tasks[t].op = "stats"
    /\ tasks[t].pc = "count_completed"
    /\ Fault(fail)
    /\ IF fail
       THEN Answer(t, tasks[t], "InternalError", "count_documents failed")
       ELSE Continue(t, [tasks[t] EXCEPT
                !.counts = Append(@, count_documents(exam_sessions,
                                                     "completed")),
                !.pc = "count_violations"])
    /\ UNCHANGED <<exam_sessions, violations, published, admins, closed,
                   students, endpoints, db_students, dropped, inbox, now,
                   nops, succeeded, args, out>>

\* lines 360-367: count the violations and return the four numbers
stats_count_violations(t, fail) ==
    /\ tasks[t].op = "stats"
    /\ tasks[t].pc = "count_violations"
    /\ Fault(fail)
    /\ IF fail
       THEN Answer(t, tasks[t], "InternalError", "count_documents failed")
       ELSE /\ tasks' = [tasks EXCEPT ![t] = Idle]
            /\ response' = [op |-> "stats", session_id |-> MissingId,
                            result |-> "success", detail |-> "",
                            call |-> tasks[t].call,
                            stats |-> SessionStats(tasks[t].counts,
                                                   Len(violations))]
    /\ UNCHANGED <<exam_sessions, violations, published, admins, closed,
                   students, endpoints, db_students, dropped, inbox, now,
                   nops, succeeded, args, out>>

\* the dashboard asks for the statistics while sessions are started and ended
NextStats ==
    \/ \E t \in Tasks, d \in StudentData, fail \in BOOLEAN :
          start_exam_session(t, d, fail)
    \/ \E t \in Tasks : start_notify(t, {})
    \/ \E t \in Tasks, sid \in KnownOrMissing, fail \in BOOLEAN :
          end_exam_session(t, sid, fail)
    \/ \E t \in Tasks, fail \in BOOLEAN : end_update(t, fail)
    \/ \E t \in Tasks : end_notify(t, {})
    \/ \E t \in Tasks, fail \in BOOLEAN : get_admin_stats(t, fail)
    \/ \E t \in Tasks, fail \in BOOLEAN : stats_count_active(t, fail)
    \/ \E t \in Tasks, fail \in BOOLEAN : stats_count_completed(t, fail)
    \/ \E t \in Tasks, fail \in BOOLEAN : stats_count_violations(t, fail)

SpecStats == Init /\ [][NextStats]_vars

\* ------------------------------------------------- reading a transition

\* a handler took a step (an admin connecting or disconnecting is no such step)
CallStep == nops' # nops \/ tasks' # tasks

\* a handler answered in this step
Answered == response'.call # response.call

\* the operation and session id of the call that took the step
StepInfo ==
    IF Answered
    THEN [op |-> response'.op, session_id |-> response'.session_id]
    ELSE LET t == CHOOSE u \in Tasks : tasks'[u] # tasks[u]
         IN  [op |-> tasks'[t].op, session_id |-> tasks'[t].session_id]

\* a process_frame call on session s has not answered yet
FrameInFlight(s) ==
    \E t \in Tasks :
        tasks[t].op = "process_frame" /\ tasks[t].session_id = s

\* number of violation documents stored for session s
StoredViolations(s) ==
    Cardinality({ k \in DOMAIN violations : violations[k].session_id = s })

\* texts of the 500 responses caused by a store operation that raised
StoreFailures == {"insert_one failed", "update_one failed", "find_one failed"}

\* ------------------------------------------------------------------ claims

\* C1: whenever no process_frame call is in flight on a session, its frame
\* counter equals the number of process_frame calls on it that returned
\* success (no lost increment, no increment left behind by a failed call).
C1_FramesEqualSuccesses ==
    \A s \in DOMAIN exam_sessions :
        ~FrameInFlight(s) => exam_sessions[s].total_frames = succeeded[s]

\* C2: whenever no process_frame call is in flight on a session, its
\* violation counter equals the number of violation records stored for it.
C2_ViolationCountEqualsStored ==
    \A s \in DOMAIN exam_sessions :
        ~FrameInFlight(s) =>
            exam_sessions[s].violation_count = StoredViolations(s)

\* C3: no step of a process_frame call on an unknown session id changes the
\* sessions, the violations or the notifications, and the call answers
\* NotFoundError (a detector error or a store failure answers as such).
C3_UnknownSessionNotFound ==
    [][ (/\ CallStep
         /\ StepInfo.op = "process_frame"
         /\ StepInfo.session_id \notin DOMAIN exam_sessions)
        => /\ UNCHANGED <<exam_sessions, violations, published, inbox>>
           /\ Answered =>
                \/ response'.result = "NotFoundError"
                \/ response'.result = "DetectionError"
                \/ /\ response'.result = "InternalError"
                   /\ response'.detail \in StoreFailures ]_vars

\* C4: a process_frame call for which the detector reports an error answers
\* with DetectionError at once, and that step changes no session counter,
\* stores no violation and publishes no notification.
C4_DetectionErrorMutatesNothing ==
    [][ (Answered /\ response'.op = "process_frame"
                  /\ response'.result = "DetectionError")
        => /\ response'.call = nops'
           /\ nops' = nops + 1
           /\ UNCHANGED <<exam_sessions, violations, published, inbox,
                          succeeded>> ]_vars

\* C4 witness: a frame of an existing session was rejected by the detector
C4_Witness ==
    /\ response.op = "process_frame"
    /\ response.result = "DetectionError"
    /\ response.session_id \in DOMAIN exam_sessions
    /\ exam_sessions[response.session_id].total_frames = 0

\* C5: an EndSession call that finds the session already completed never
\* answers success: it fails with InvalidStateError (or with the 500 of a
\* store operation that raised).
C5_SecondEndIsInvalidState ==
    [][ \A t \in Tasks :
          (/\ tasks[t].op = "end"
           /\ tasks[t].session.status = "completed"
           /\ Answered
           /\ response'.call = tasks[t].call)
          => \/ response'.result = "InvalidStateError"
             \/ /\ response'.result = "InternalError"
                /\ response'.detail \in StoreFailures ]_vars

\* C6: a session is created active, and the only change of status any step
\* makes is active -> completed: a completed session is never active again.
C6_StatusActiveThenCompleted ==
    [][ \A s \in DOMAIN exam_sessions' :
          IF s \in DOMAIN exam_sessions
          THEN \/ exam_sessions'[s].status = exam_sessions[s].status
               \/ /\ exam_sessions[s].status = "active"
                  /\ exam_sessions'[s].status = "completed"
          ELSE exam_sessions'[s].status = "active" ]_vars

\* C6 witness: nothing has failed, one EndSession call on the only session has
\* answered success and a second one has written the completed session again
C6_Witness ==
    /\ faults = 0
    /\ Len(exam_sessions) = 1
    /\ exam_sessions[1].status = "completed"
    /\ exam_sessions[1].end_time = 2
    /\ response.op = "end"
    /\ response.result = "success"

\* C7: no step changes the end timestamp, the frame counter or the violation
\* counter of a session whose status is completed.
C7_CompletedSessionImmutable ==
    [][ \A s \in DOMAIN exam_sessions :
          exam_sessions[s].status = "completed"
          => /\ exam_sessions'[s].end_time = exam_sessions[s].end_time
             /\ exam_sessions'[s].total_frames = exam_sessions[s].total_frames
             /\ exam_sessions'[s].violation_count =
                   exam_sessions[s].violation_count ]_vars

\* the kinds of the violation alerts of call c in an event log, in log order
AlertKinds(log, c) ==
    LET sel == SelectSeq(log, LAMBDA e :
                   e.channel = "violation_alert" /\ e.call = c)
    IN  [k \in 1..Len(sel) |-> sel[k].detail]

\* the kinds of the violations call c has stored, in insertion order
StoredKinds(c) ==
    LET sel == SelectSeq(violations, LAMBDA v : v.call = c)
    IN  [k \in 1..Len(sel) |-> sel[k].violation_type]

\* how many findings the call has broadcast, and how many it has stored
Sent(tk) == IF tk.pc = "find" THEN 0 ELSE tk.i - 1
Stored(tk) == IF tk.pc \in {"inc_violation", "broadcast"} THEN tk.i ELSE Sent(tk)

C8_InFlight ==
    \A t \in Tasks :
        tasks[t].op = "process_frame" =>
            LET tk == tasks[t]
                f  == tk.violations
            IN  /\ StoredKinds(tk.call) = SubSeq(f, 1, Stored(tk))
                /\ AlertKinds(published, tk.call) = SubSeq(f, 1, Sent(tk))
                /\ \A h \in Handles :
                     \E a \in 1..(Sent(tk) + 1) : \E b \in (a - 1)..Sent(tk) :
                        /\ AlertKinds(inbox[h], tk.call) = SubSeq(f, a, b)
                        /\ h \in admins => b = Sent(tk)

C8_OnSuccess ==
    \A t \in Tasks :
        (/\ tasks[t].op = "process_frame"
         /\ Answered
         /\ response'.call = tasks[t].call
         /\ response'.result = "success")
        => LET f == tasks[t].violations
               c == tasks[t].call
           IN  /\ AlertKinds(published', c) = f
               /\ \A h \in admins' :
                    \E a \in 1..(Len(f) + 1) :
                       AlertKinds(inbox'[h], c) = SubSeq(f, a, Len(f))

\* C8: a process_frame call stores and broadcasts its findings in the order
\* the detector returned them: at every moment what it has stored and what it
\* has published are prefixes of the findings, every subscriber's queue holds
\* a contiguous run of them in that order (up to the latest one while it is
\* subscribed), and when the call answers success all of them were published.
C8_FindingOrder ==
    /\ []C8_InFlight
    /\ [][C8_OnSuccess]_vars

\* C8 witness: a call with findings looking_away, multiple_faces has answered
\* success and a subscriber holds exactly these two alerts, in this order
C8_Witness ==
    /\ response.op = "process_frame"
    /\ response.result = "success"
    /\ \E h \in Handles :
          AlertKinds(inbox[h], response.call) =
             <<"looking_away", "multiple_faces">>

\* C9: a step of a process_frame call at the upload/insert of a finding,
\* unless the insert itself fails (or there is no session), stores the
\* violation of that finding and goes on to count it: an upload that fails
\* does not suppress it.
C9_UploadFailureKeepsViolation ==
    [][ \A t \in Tasks :
          (/\ tasks[t].op = "process_frame"
           /\ tasks[t].pc = "insert"
           /\ tasks'[t] # tasks[t]
           /\ ~(Answered /\ response'.detail \in
                   {"insert_one failed", "NoneType is not subscriptable"}))
          => /\ Len(violations') = Len(violations) + 1
             /\ violations'[Len(violations')].violation_type =
                   tasks[t].violations[tasks[t].i]
             /\ tasks'[t].pc = "inc_violation" ]_vars

\* C10: when the insert of the violation of a finding fails, the call does
\* not end there with an error: it goes on to the next finding, or, after
\* the last one, answers success.
C10_InsertFailureContinues ==
    [][ \A t \in Tasks :
          (/\ tasks[t].op = "process_frame"
           /\ tasks[t].pc = "insert"
           /\ Answered
           /\ response'.call = tasks[t].call
           /\ response'.detail = "insert_one failed")
          => /\ response'.result = "success"
             /\ tasks[t].i = Len(tasks[t].violations) ]_vars

\* ------------------------------------------------ notification hub claims

\* the handles whose send failed in this step
FailedNow == dropped' \ dropped

\* what the handler in slot t does after its publish when every send succeeds:
\* the notify of StartSession / EndSession answers success, the broadcast of
\* ProcessFrame goes on to the next finding or, after the last, answers success
AfterPublishAsIfDelivered(t) ==
    LET tk == tasks[t]
    IN  IF tk.pc = "broadcast" /\ tk.i < Len(tk.violations)
        THEN /\ tasks'[t] = [tk EXCEPT !.i = tk.i + 1, !.pc = "insert"]
             /\ response' = response
        ELSE /\ tasks'[t] = Idle
             /\ response' = [op |-> tk.op, session_id |-> tk.session_id,
                             result |-> "success", detail |-> "",
                             call |-> tk.call]

\* C11: a delivery failure is never surfaced to the publisher: whatever
\* handles fail in a publish step of StartSession, EndSession or ProcessFrame,
\* the handler does what it does when every send succeeds (answers success, or
\* goes on to the next finding), and each failing handle is dropped: it is out
\* of the global set, closed, and was not handed the event.
C11_DeliveryFailureAbsorbed ==
    [][ \A t \in Tasks :
          (tasks[t].pc \in {"notify", "broadcast"} /\ tasks'[t] # tasks[t])
          => /\ Len(published') = Len(published) + 1
             /\ AfterPublishAsIfDelivered(t)
             /\ FailedNow \subseteq admins
             /\ \A h \in FailedNow :
                   /\ h \notin admins'
                   /\ h \in closed'
                   /\ inbox'[h] = inbox[h] ]_vars

\* C11 witness: a ProcessFrame call with two findings answered success and
\* published both alerts although the send of the first one failed for a
\* handle, which was dropped and holds none of them
C11_Witness ==
    /\ response.op = "process_frame"
    /\ response.result = "success"
    /\ AlertKinds(published, response.call) = <<"looking_away", "multiple_faces">>
    /\ StoredKinds(response.call) = <<"looking_away", "multiple_faces">>
    /\ \E h \in dropped : AlertKinds(inbox[h], response.call) = <<>>

\* the event handed to ws_manager in this step
Published == published'[Len(published')]

\* the websockets that are subscribed in session scope
StudentSockets == { p[2] : p \in students }

\* a step of the handlers that publishes an event
PublishStep == Len(published') = Len(published) + 1

\* every event a handle subscribed to session S's set holds is one of S
C12_SessionScope ==
    \A p \in students :
        \A k \in DOMAIN inbox[p[2]] : inbox[p[2]][k].session_id = p[1]

\* every violation alert reaches every handle of the global set
C12_GlobalScope ==
    (PublishStep /\ Published.channel = "violation_alert")
    => \A h \in admins' : inbox'[h] = Append(inbox[h], Published)

IndexIn(log, ev) == CHOOSE k \in DOMAIN log : log[k] = ev

\* C14: delivery is FIFO per subscriber: every event a handle holds was
\* published, and of two events it holds, the one published first comes
\* first, also when they come from concurrent ProcessFrame calls.
C14_FifoPerSubscriber ==
    \A h \in Sockets :
        /\ \A k \in DOMAIN inbox[h] :
              \E n \in DOMAIN published : published[n] = inbox[h][k]
        /\ \A j \in DOMAIN inbox[h], k \in DOMAIN inbox[h] :
              j < k => IndexIn(published, inbox[h][j]) <
                       IndexIn(published, inbox[h][k])

\* C14 witness: a handle holds the alerts of two concurrent ProcessFrame
\* calls, the alert of the second call between the two alerts of the first
C14_Witness ==
    \E h \in Sockets :
        /\ Len(inbox[h]) >= 3
        /\ \A k \in 1..3 : inbox[h][k].channel = "violation_alert"
        /\ inbox[h][1].call = 1
        /\ inbox[h][2].call = 2
        /\ inbox[h][3].call = 1

\* the session events of call c in the log of published events
SessionEvents(log, c) ==
    SelectSeq(log, LAMBDA e : e.channel = "session_update" /\ e.call = c)

\* the change a StartSession / EndSession call makes is in the store
RecordStored(op, sid) ==
    /\ sid \in DOMAIN exam_sessions
    /\ op = "end" => exam_sessions[sid].status = "completed"

\* C16: a StartSession or EndSession call that answers success has published
\* exactly one session event: it is published in the step that answers, when
\* the new session record (or the completed status) is already in the store,
\* and no handle subscribed in session scope is handed it.
C16_OneSessionEvent ==
    [][ (Answered /\ response'.op \in {"start", "end"}
                  /\ response'.result = "success")
        => /\ PublishStep
           /\ Published.channel = "session_update"
           /\ Published.session_id = response'.session_id
           /\ Len(SessionEvents(published', response'.call)) = 1
           /\ RecordStored(response'.op, response'.session_id)
           /\ UNCHANGED exam_sessions
           /\ \A h \in StudentSockets : inbox'[h] = inbox[h] ]_vars

\* C16 witness: EndSession of session 1 answered success, a handle of the
\* global set holds its session event and a handle subscribed to session 1's
\* set holds nothing
C16_Witness ==
    /\ response.op = "end"
    /\ response.result = "success"
    /\ response.session_id = 1
    /\ exam_sessions[1].status = "completed"
    /\ \E h \in admins :
          Len(SessionEvents(inbox[h], response.call)) = 1
    /\ \E h \in Sockets : <<1, h>> \in students /\ inbox[h] = <<>>

\* ------------------------------------------------------ session store claims

\* C15: an EndSession call on a session id that no stored session has answers
\* at once with NotFoundError (with the 500 of the lookup when the lookup
\* itself raises), and that step changes no session record, stores nothing
\* and publishes no notification.
C15_EndUnknownNotFound ==
    [][ (/\ CallStep
         /\ StepInfo.op = "end"
         /\ StepInfo.session_id \notin DOMAIN exam_sessions)
        => /\ Answered
           /\ response'.call = nops'
           /\ \/ /\ response'.result = "NotFoundError"
                 /\ response'.detail = "Session not found"
              \/ /\ response'.result = "InternalError"
                 /\ response'.detail = "find_one failed"
           /\ UNCHANGED <<exam_sessions, violations, published, inbox>> ]_vars

\* C15 witness: with a session in the store, EndSession on an unknown id
\* answered NotFoundError and the stored session is still active
C15_Witness ==
    /\ response.op = "end"
    /\ response.result = "NotFoundError"
    /\ response.session_id = MissingId
    /\ Len(exam_sessions) >= 1
    /\ \A s \in DOMAIN exam_sessions : exam_sessions[s].status = "active"
    /\ published = <<>>

\* C17: every stored violation references a session id that is in the session
\* store and carries the student id and the student name of that session.
C17_ViolationReferencesSession ==
    \A k \in DOMAIN violations :
        LET v == violations[k]
        IN  /\ v.session_id \in DOMAIN exam_sessions
            /\ v.student_id = exam_sessions[v.session_id].student_id
            /\ v.student_name = exam_sessions[v.session_id].student_name

\* C17 witness: two sessions of different students are stored and a violation
\* of the second one is stored
C17_Witness ==
    /\ Len(exam_sessions) = 2
    /\ exam_sessions[1].student_id # exam_sessions[2].student_id
    /\ \E k \in DOMAIN violations : violations[k].session_id = 2

\* --------------------------------------------------------- report claims

\* a student report was generated from the list args.violations
ReportDone == out.fn = "generate_student_html_report"

\* C18: in a student report the card of a violation that has a snapshot url
\* shows the url, also when the violation has an inline snapshot too; the
\* inline snapshot (as a data URL) is shown only when there is no url; a
\* violation with neither has no image.
C18_UrlPrecedence ==
    ReportDone =>
        /\ Len(out.cards) = Len(args.violations)
        /\ \A k \in DOMAIN args.violations :
              LET v      == args.violations[k]
                  url    == get_or_None(v, "snapshot_url")
                  inline == get_or_None(v, "snapshot_base64")
                  image  == out.cards[k].image
              IN  /\ truthy(url) => image.img /\ image.src = url
                  /\ (~truthy(url) /\ truthy(inline)) =>
                        /\ image.img
                        /\ image.src \in DataUrls
                        /\ inline \in DataUrls => image.src = inline
                  /\ (~truthy(url) /\ ~truthy(inline)) => ~image.img

\* C18 witness: a violation with both a url and an inline snapshot, shown
\* with the url
C18_Witness ==
    /\ ReportDone
    /\ \E k \in DOMAIN args.violations :
          /\ get_or_None(args.violations[k], "snapshot_url") =
                "https://store/s.jpg"
          /\ get_or_None(args.violations[k], "snapshot_base64") = "AAAA"
          /\ out.cards[k].image = [img |-> TRUE, src |-> "https://store/s.jpg"]

RECURSIVE SumOfPercentages(_)
SumOfPercentages(rows) ==
    IF rows = <<>> THEN 0
    ELSE rows[1].percentage + SumOfPercentages(Tail(rows))

Abs(x) == IF x < 0 THEN -x ELSE x

\* number of violations of the list that are of the kind
CountOfKind(vs, kind) ==
    Cardinality({ k \in DOMAIN vs : kinds_of(vs)[k] = kind })

\* C19: a student report is produced also for no violations, and then has no
\* percentage row; for a total above zero it has one row per distinct kind,
\* each with the count of that kind and with count / total * 100 to the
\* nearest tenth, and the percentages add up to 100 within the rounding of the
\* rows (percentages are in tenths of a percent).
C19_Percentages ==
    ReportDone =>
        LET vs    == args.violations
            total == Len(vs)
            rows  == out.breakdown
        IN  /\ out.text # ""
            /\ total = 0 => rows = <<>>
            /\ total > 0 =>
                  /\ { rows[k].v_type : k \in DOMAIN rows } =
                        { kinds_of(vs)[k] : k \in DOMAIN vs }
                  /\ \A j \in DOMAIN rows, k \in DOMAIN rows :
                        j # k => rows[j].v_type # rows[k].v_type
                  /\ \A k \in DOMAIN rows :
                        /\ rows[k].count = CountOfKind(vs, rows[k].v_type)
                        /\ 2 * Abs(rows[k].percentage * total
                                   - 1000 * rows[k].count) <= total
                  /\ 2 * Abs(SumOfPercentages(rows) - 1000) <= Len(rows)

\* C19 witness: three violations of three kinds (one without a kind): three
\* rows of 33.3, which add up to 99.9
C19_Witness ==
    /\ ReportDone
    /\ Len(args.violations) = 3
    /\ Len(out.breakdown) = 3
    /\ \A k \in 1..3 : out.breakdown[k].percentage = 333
    /\ \E k \in 1..3 : out.breakdown[k].v_type = "unknown"

\* the student of a violation document as the summary reads it
StudentOf(v) ==
    <<get(v, "student_id", <<>>), get(v, "student_name", <<>>)>>

\* the place of the first violation of the student of a summary row
FirstOccurrence(vs, row) ==
    CHOOSE k \in DOMAIN vs :
        /\ StudentOf(vs[k]) = <<row.student_id, row.student_name>>
        /\ \A j \in 1..(k - 1) :
              StudentOf(vs[j]) # <<row.student_id, row.student_name>>

\* C20: the student-wise rows of a summary report carry each student's number
\* of violations, in descending order of that number, and rows of equal
\* number are in the order in which the students first occur in the list.
C20_RankedDescending ==
    (out.fn = "export_summary_csv" /\ out.text # "") =>
        LET vs   == args.violations
            rows == out.rows
        IN  /\ \A k \in DOMAIN rows :
                  rows[k].count =
                     Cardinality({ n \in DOMAIN vs : StudentOf(vs[n]) =
                                     <<rows[k].student_id,
                                       rows[k].student_name>> })
            /\ \A k \in DOMAIN rows : rows[k].count > 0
            /\ \A j \in DOMAIN rows, k \in DOMAIN rows :
                  j < k =>
                     /\ rows[j].count >= rows[k].count
                     /\ rows[j].count = rows[k].count =>
                           FirstOccurrence(vs, rows[j]) <
                           FirstOccurrence(vs, rows[k])

\* C20 witness: students 1 and 2 with one violation each come first in the
\* list, a student with two violations after them; the summary lists that one
\* first, then student 1, then student 2
C20_Witness ==
    /\ out.fn = "export_summary_csv"
    /\ Len(args.violations) = 4
    /\ Len(out.rows) = 3
    /\ out.rows[1].count = 2
    /\ out.rows[2] = [student_id |-> <<"1">>, student_name |-> <<"A">>,
                      count |-> 1]
    /\ out.rows[3] = [student_id |-> <<"2">>, student_name |-> <<"B">>,
                      count |-> 1]
    /\ StudentOf(args.violations[1]) = <<(<<"1">>), (<<"A">>)>>
    /\ StudentOf(args.violations[2]) = <<(<<"2">>), (<<"B">>)>>

\* the kind a violation document is counted under: its violation_type as it
\* is written, "unknown" when it has none
KindOf(v) ==
    IF "violation_type" \in DOMAIN v THEN v.violation_type ELSE "unknown"

RECURSIVE SumOfCounts(_)
SumOfCounts(rows) ==
    IF rows = <<>> THEN 0 ELSE rows[1].count + SumOfCounts(Tail(rows))

\* a summary or a student CSV was exported from the list args.violations
BreakdownDone ==
    out.fn \in {"export_summary_csv", "export_student_violations_csv"}

\* C21: for every list of violations the per-type breakdown of the summary
\* and of the student CSV has exactly one bucket for the kind of each
\* violation (case preserved, "unknown" for a violation without a kind), each
\* bucket counts the violations of its kind, and the counts add up to the
\* number of violations.
C21_BreakdownByKind ==
    BreakdownDone =>
        LET vs   == args.violations
            rows == out.breakdown
        IN  /\ \A k \in DOMAIN vs :
                  Cardinality({ j \in DOMAIN rows :
                                  rows[j].key = KindOf(vs[k]) }) = 1
            /\ \A j \in DOMAIN rows :
                  rows[j].count =
                     Cardinality({ k \in DOMAIN vs :
                                     KindOf(vs[k]) = rows[j].key })
            /\ SumOfCounts(rows) = Len(vs)

\* ------------------------------------------------------- disconnect claims

\* websocket h disconnects in this step (a handle dropped by a failed send is
\* not a disconnect)
Disconnects(h) == h \notin closed /\ h \in closed' /\ h \notin FailedNow

\* C22: a step in which a handle disconnects removes that handle from the
\* global set and from every session's set, and removes no other handle:
\* the other handles of the same session id and of the global set stay
\* subscribed.
C22_OnlyThatHandleRemoved ==
    [][ \A h \in Sockets :
          Disconnects(h) =>
             /\ admins' = admins \ {h}
             /\ students' = { p \in students : p[2] # h } ]_vars

\* ------------------------------------------------- session isolation claims

\* C23: a step of a ProcessFrame call for session A leaves the status, end
\* timestamp, frame counter and violation counter of every other session as
\* they were, creates no session, and the violation it stores (if any) is one
\* new record that references session A; this holds at every step, so under
\* any interleaving with the ProcessFrame calls of other sessions.
C23_OtherSessionsUntouched ==
    [][ (CallStep /\ StepInfo.op = "process_frame")
        => /\ DOMAIN exam_sessions' = DOMAIN exam_sessions
           /\ \A s \in DOMAIN exam_sessions :
                 s # StepInfo.session_id =>
                    /\ exam_sessions'[s].status = exam_sessions[s].status
                    /\ exam_sessions'[s].end_time = exam_sessions[s].end_time
                    /\ exam_sessions'[s].total_frames =
                          exam_sessions[s].total_frames
                    /\ exam_sessions'[s].violation_count =
                          exam_sessions[s].violation_count
           /\ Len(violations') \in {Len(violations), Len(violations) + 1}
           /\ SubSeq(violations', 1, Len(violations)) = violations
           /\ \A k \in DOMAIN violations' \ DOMAIN violations :
                 violations'[k].session_id = StepInfo.session_id ]_vars

\* C23 witness: two ProcessFrame calls, one for session 1 with two findings
\* and one for session 2 with one, ran interleaved: the violation of session 2
\* was stored between the two of session 1, and each session counts its own
C23_Witness ==
    /\ Len(violations) = 3
    /\ violations[1].session_id = 1
    /\ violations[2].session_id = 2
    /\ violations[3].session_id = 1
    /\ exam_sessions[1].total_frames = 1
    /\ exam_sessions[2].total_frames = 1
    /\ exam_sessions[1].violation_count = 2
    /\ exam_sessions[2].violation_count = 1
    /\ \A t \in Tasks : tasks[t].pc = "idle"

\* number of violation alerts handed to ws_manager for session s
AlertsEmitted(s) ==
    Cardinality({ k \in DOMAIN published :
                    /\ published[k].channel = "violation_alert"
                    /\ published[k].session_id = s })

\* C24: in every reachable state and for every session, the number of
\* violation alerts emitted for it is at most its violation counter, which is
\* at most the number of violation records stored for it (each finding is
\* stored, then counted, then announced), whatever calls run concurrently and
\* whatever store operation fails.
C24_AlertsCounterStored ==
    \A s \in DOMAIN exam_sessions :
        /\ AlertsEmitted(s) <= exam_sessions[s].violation_count
        /\ exam_sessions[s].violation_count <= StoredViolations(s)

\* C24 witness: two concurrent ProcessFrame calls on one session: one has
\* stored and counted its finding and not yet announced it, the other has
\* stored its finding and not yet counted it
C24_Witness ==
    \E s \in DOMAIN exam_sessions :
        /\ AlertsEmitted(s) = 0
        /\ exam_sessions[s].violation_count = 1
        /\ StoredViolations(s) = 2
        /\ \E t \in Tasks, u \in Tasks :
              /\ tasks[t].session_id = s /\ tasks[t].pc = "broadcast"
              /\ tasks[u].session_id = s /\ tasks[u].pc = "inc_violation"

\* ------------------------------------------------------------ student claims

\* C25: in every reachable state at most one student record exists per email
\* address, also when register_student calls for the same email interleave.
C25_OneStudentPerEmail ==
    \A j \in DOMAIN db_students, k \in DOMAIN db_students :
        j # k => db_students[j].email # db_students[k].email

\* ------------------------------------------------------------- stats claims

\* C26: every result get_admin_stats returns is a consistent snapshot:
\* total_sessions = active_sessions + completed_sessions, also when sessions
\* are started or ended while the call runs.
C26_StatsConsistent ==
    (response.op = "stats" /\ response.result = "success")
    => response.stats.total_sessions =
          response.stats.active_sessions + response.stats.completed_sessions

\* ------------------------------------------------------ student-wise rows

\* the student of a summary row
RowStudent(row) == <<row.student_id, row.student_name>>

\* C27: for every list of violations, whatever the student ids and names
\* contain, the student-wise rows of the summary are exactly one row per
\* distinct (student_id, student_name) pair of the list, each showing the
\* pair as it is in the documents, and the row counts add up to the number
\* of violations.
C27_OneRowPerStudent ==
    out.fn = "export_summary_csv" =>
        LET vs   == args.violations
            rows == out.rows
        IN  /\ \A k \in DOMAIN vs :
                  Cardinality({ j \in DOMAIN rows :
                                  RowStudent(rows[j]) = StudentOf(vs[k]) }) = 1
            /\ \A j \in DOMAIN rows :
                  \E k \in DOMAIN vs : StudentOf(vs[k]) = RowStudent(rows[j])
            /\ SumOfCounts(rows) = Len(vs)

====
